---- MODULE Spec2Model ----
(***************************************************************************)
(* Model of qualer_mcp_server.py: the process-wide HTTP client and its     *)
(* lifecycle (init_client, get_client, close_client, main), and the six    *)
(* tool operations and two resource readers built on it.  The upstream     *)
(* Qualer API is the environment: every outbound call is answered by a     *)
(* nondeterministically chosen HTTP response or by a transport failure.    *)
(*                                                                         *)
(* Python values: Optional[T] is a sequence of length 0 (None / absent     *)
(* key) or 1 (the value).  Opaque strings (cursor, status, body text) are  *)
(* TLA+ strings; strings whose characters matter (base64 content, asset    *)
(* text fields, the search query) are sequences of one-character strings.  *)
(***************************************************************************)
EXTENDS Integers, Sequences, FiniteSets, TLC

VARIABLES entry, envToken, pc, client, constructed, closes, serverRan,
          exitError, nInv, netCalls, last

vars == <<entry, envToken, pc, client, constructed, closes, serverRan,
          exitError, nInv, netCalls, last>>

(* ------------------------------ bounds --------------------------------- *)

MaxInvocations == 2

MaxItems == 2

(* --------------------------- Python helpers ---------------------------- *)

None == <<>>

Some(v) == <<v>>

\* Python truthiness of an Optional[str]: None and "" are falsy.
TruthyStr(o) == o # None /\ o[1] # ""

\* Python truthiness of an Optional[int]: None and 0 are falsy.
TruthyInt(o) == o # None /\ o[1] # 0

Return(v) == [tag |-> "return", value |-> v]

Raise(exc, msg, id, status, text) ==
    [tag |-> "raise", exc |-> exc, msg |-> msg, id |-> id,
     status |-> status, text |-> text]

(* ---------------------------- the upstream ----------------------------- *)

FailStatuses == {302, 404, 500}

BodyTexts == {"", "quota exceeded"}

TransportFailure == [kind |-> "transport"]

FailResponses ==
    {[kind |-> "response", status |-> s, text |-> t, json |-> None] :
        s \in FailStatuses, t \in BodyTexts}

OkResponse(j) == [kind |-> "response", status |-> 200, text |-> "", json |-> Some(j)]

\* httpx.Response.raise_for_status: raises HTTPStatusError unless 2xx.
IsSuccess(status) == status >= 200 /\ status <= 299

(* --------------------------- client lifecycle -------------------------- *)

\* os.environ.get("QUALER_TOKEN", "")
Token == IF envToken = None THEN "" ELSE envToken[1]

NotInitializedError ==
    Raise("RuntimeError", "Qualer client not initialized", None, None, None)

ConfigurationError ==
    Raise("RuntimeError", "QUALER_TOKEN environment variable is required",
          None, None, None)

\* get_client without the None check: hands out whatever the global holds.
get_client_unchecked == IF client = None THEN Return(0) ELSE Return(client[1])

\* get_client(): the outcome of reading the module global _client.
get_client == IF client = None THEN NotInitializedError ELSE Return(client[1])

\* init_client without the token check.
init_client_unchecked == Return(constructed + 1)

\* init_client(): raises when the token is empty, else a fresh AsyncClient.
init_client ==
    IF Token = "" THEN ConfigurationError ELSE Return(constructed + 1)

NoInvocation ==
    [op |-> "none", via |-> "none", args |-> None, clientSeen |-> None,
     requests |-> <<>>, response |-> None, outcome |-> Return(None),
     fedBack |-> FALSE]

Init ==
    /\ entry \in {"main", "script"}
    /\ envToken \in {None, Some(""), Some("secret")}
    /\ pc = "start"
    /\ client = None
    /\ constructed = 0
    /\ closes = 0
    /\ serverRan = FALSE
    /\ exitError = None
    /\ nInv = 0
    /\ netCalls = 0
    /\ last = NoInvocation

\* main(): _client = await init_client()
MainInit ==
    /\ entry = "main" /\ pc = "start"
    /\ IF init_client.tag = "raise"
         THEN /\ exitError' = Some(init_client)
              /\ pc' = "exited"
              /\ UNCHANGED <<client, constructed>>
         ELSE /\ client' = Some(init_client.value)
              /\ constructed' = constructed + 1
              /\ pc' = "initialized"
              /\ UNCHANGED exitError
    /\ UNCHANGED <<entry, envToken, closes, serverRan, nInv, netCalls, last>>

\* main(): entering the try block, mcp.run() starts serving.
ServerStart ==
    /\ entry = "main" /\ pc = "initialized"
    /\ serverRan' = TRUE
    /\ pc' = "serving"
    /\ UNCHANGED <<entry, envToken, client, constructed, closes, exitError,
                   nInv, netCalls, last>>

\* close_client(client): await client.aclose()
close_client == closes + 1

\* An exception escaping mcp.run().
ServerError == Raise("Exception", "mcp.run", None, None, None)

\* main() with the close after the call instead of in a finally clause.
ServerStop_noFinally ==
    /\ entry = "main" /\ pc = "serving"
    /\ \E how \in {"return", "raise"} :
         /\ exitError' = IF how = "raise" THEN Some(ServerError) ELSE None
         /\ closes' = IF how = "raise" THEN closes ELSE close_client
         /\ pc' = "exited"
    /\ UNCHANGED <<entry, envToken, client, constructed, serverRan,
                   nInv, netCalls, last>>

\* main(): mcp.run() returns or raises; the finally clause closes the client.
ServerStop ==
    /\ entry = "main" /\ pc = "serving"
    /\ \E how \in {"return", "raise"} :
         /\ exitError' = IF how = "raise" THEN Some(ServerError) ELSE None
         /\ closes' = close_client
         /\ pc' = "exited"
    /\ UNCHANGED <<entry, envToken, client, constructed, serverRan,
                   nInv, netCalls, last>>

\* test_api_call.py: qualer_mcp_server._client = await init_client(), inside
\* a try whose except clause ends the script.
ScriptInit ==
    /\ entry = "script" /\ pc = "start"
    /\ IF init_client.tag = "raise"
         THEN /\ exitError' = Some(init_client)
              /\ pc' = "exited"
              /\ UNCHANGED <<client, constructed>>
         ELSE /\ client' = Some(init_client.value)
              /\ constructed' = constructed + 1
              /\ pc' = "ready"
              /\ UNCHANGED exitError
    /\ UNCHANGED <<entry, envToken, closes, serverRan, nInv, netCalls, last>>

\* test_api_call.py: await close_client(qualer_mcp_server._client)
ScriptClose ==
    /\ entry = "script" /\ pc = "ready"
    /\ closes' = close_client
    /\ pc' = "exited"
    /\ UNCHANGED <<entry, envToken, client, constructed, serverRan,
                   exitError, nInv, netCalls, last>>

(* ------------------------- invoking an operation ----------------------- *)

\* A tool can be invoked by the running server, or by a script that imported
\* the module (before or after it initialised the client).
CanInvoke ==
    /\ nInv < MaxInvocations
    /\ \/ entry = "main" /\ pc = "serving"
       \/ entry = "script" /\ pc \in {"start", "ready"}

\* The bookkeeping every invocation shares: inv is the finished invocation.
\* An exception escaping a call made by the script ends the script.
Finish(inv) ==
    /\ last' = inv
    /\ nInv' = nInv + 1
    /\ netCalls' = netCalls + Len(inv.requests)
    /\ IF entry = "script" /\ inv.outcome.tag = "raise"
         THEN pc' = "exited" /\ exitError' = Some(inv.outcome)
         ELSE UNCHANGED <<pc, exitError>>
    /\ UNCHANGED <<entry, envToken, client, constructed, closes, serverRan>>

\* What the upstream answered to an invocation, None if it was not asked.
Answered(r, resp) == IF r.requests = <<>> THEN None ELSE Some(resp)

\* The record of one invocation: r is what the function body did (the client
\* it saw, the requests it issued, its outcome), resp the upstream's answer.
Invocation(op, via, args, r, resp) ==
    [op |-> op, via |-> via, args |-> args, clientSeen |-> r.seen,
     requests |-> r.requests, response |-> Answered(r, resp),
     outcome |-> r.outcome, fedBack |-> FALSE]

Ids == {7, 8}

\* The answers the upstream can give to an invocation: it answers only when
\* it is asked, that is when the invocation issues a request.
UpstreamAnswers(responses, asked) ==
    IF asked THEN responses ELSE {TransportFailure}

Request(method, path, id, params, json) ==
    [method |-> method, path |-> path, id |-> id, params |-> params,
     json |-> json]

\* data.get(k): the value of key k of a decoded JSON object, None when absent.
Get(data, k) == IF k \in DOMAIN data THEN Some(data[k]) ELSE None

\* An exception raised by client.get / client.post itself (connection failure,
\* timeout): no handler catches it, so it leaves the tool as it is.
TransportError == Raise("httpx.RequestError", "", None, None, None)

SchemaError(model) == Raise("ValidationError", model, None, None, None)

\* The RuntimeError without the response body.
ApiError_noText(resp) ==
    Raise("RuntimeError", "API error: {status_code} - {text}", None,
          Some(resp.status), Some(""))

\* The "API error: {status_code} - {text}" RuntimeError of the read tools.
ApiError(resp) ==
    Raise("RuntimeError", "API error: {status_code} - {text}", None,
          Some(resp.status), Some(resp.text))

\* The ValueError without the identifier.
NotFoundError_noId(what, id) ==
    Raise("ValueError", what \o " not found", None, None, None)

\* The "... {id} not found" ValueError of the three by-id tools.
NotFoundError(what, id) ==
    Raise("ValueError", what \o " {id} not found", Some(id), None, None)

(* ------------------------------ the models ----------------------------- *)

\* ServiceOrder(**data): id, number and status are required, the other four
\* fields default to None, unknown keys are ignored.
ServiceOrder(data) ==
    IF {"id", "number", "status"} \subseteq DOMAIN data
      THEN Return([id |-> data.id, number |-> data.number,
                   status |-> data.status,
                   client_company_id |-> Get(data, "client_company_id"),
                   client_company_name |-> Get(data, "client_company_name"),
                   created_at |-> Get(data, "created_at"),
                   updated_at |-> Get(data, "updated_at")])
      ELSE SchemaError("ServiceOrder")

\* Asset(**data): id and name are required.
Asset(data) ==
    IF {"id", "name"} \subseteq DOMAIN data
      THEN Return([id |-> data.id, name |-> data.name,
                   serial_number |-> Get(data, "serial_number"),
                   model |-> Get(data, "model"),
                   manufacturer |-> Get(data, "manufacturer"),
                   client_company_id |-> Get(data, "client_company_id"),
                   location |-> Get(data, "location")])
      ELSE SchemaError("Asset")

\* Document(**doc): id and filename are required.
Document(data) ==
    IF {"id", "filename"} \subseteq DOMAIN data
      THEN Return([id |-> data.id, filename |-> data.filename,
                   uploaded_at |-> Get(data, "uploaded_at"),
                   uploaded_by |-> Get(data, "uploaded_by"),
                   size_bytes |-> Get(data, "size_bytes")])
      ELSE SchemaError("Document")

\* PaginatedResponse(items=..., next_cursor=..., total_count=...)
PaginatedResponse(items, next_cursor, total_count) ==
    [items |-> items, next_cursor |-> next_cursor,
     total_count |-> total_count]

\* UploadResult(success=..., document_id=..., message=...)
UploadResult(success, document_id, message) ==
    [success |-> success, document_id |-> document_id, message |-> message]

\* [ServiceOrder(**item) for item in seq]: raises if an item fails.
ServiceOrdersValid(seq) ==
    \A i \in 1..Len(seq) : ServiceOrder(seq[i]).tag = "return"

ServiceOrders(seq) == [i \in 1..Len(seq) |-> ServiceOrder(seq[i]).value]

\* [Asset(**item) for item in seq]
AssetsValid(seq) == \A i \in 1..Len(seq) : Asset(seq[i]).tag = "return"

Assets(seq) == [i \in 1..Len(seq) |-> Asset(seq[i]).value]

\* [Document(**doc) for doc in seq]
DocumentsValid(seq) == \A i \in 1..Len(seq) : Document(seq[i]).tag = "return"

Documents(seq) == [i \in 1..Len(seq) |-> Document(seq[i]).value]

(* --------------------------- upstream payloads ------------------------- *)

OrderPayloads(id) ==
    << [id |-> id, number |-> "SO-1", status |-> "Open",
        client_company_id |-> 42, client_company_name |-> "ACME",
        created_at |-> "2024-01-01", updated_at |-> "2024-02-01"],
       [id |-> id, number |-> "SO-2", status |-> "Closed"],
       [id |-> id, number |-> "SO-3"],
       [id |-> id, number |-> "SO-4", status |-> "Open",
        customer_name |-> "Bob"],
       [number |-> "SO-5", status |-> "Open"] >>

AssetPayloads(id) ==
    << [id |-> id, name |-> <<"G", "a">>, serial_number |-> <<"x">>,
        model |-> <<"m">>, manufacturer |-> "ACME", location |-> "Lab"],
       [id |-> id, name |-> <<"P">>],
       [id |-> id, serial_number |-> <<"x">>],
       [id |-> id, name |-> <<"P">>, owner |-> "Bob"] >>

DocumentLists ==
    << <<>>,
       << [id |-> 1, filename |-> "cert.pdf", size_bytes |-> 10],
          [id |-> 2, filename |-> "photo.png"] >>,
       << [id |-> 3] >> >>

(* ------------------------------ by-id tools ---------------------------- *)

\* The shared shape of get_service_order, get_asset and
\* list_service_order_documents: get_client, one GET, raise_for_status,
\* then the model; 404 becomes the ValueError, other statuses the RuntimeError.
get_service_order(so_id, resp) ==
    LET c == get_client
        req == Request("GET", "/api/v1/service-orders/{so_id}", Some(so_id),
                       None, None)
    IN  IF c.tag = "raise"
          THEN [seen |-> None, requests |-> <<>>, outcome |-> c]
        ELSE IF resp.kind = "transport"
          THEN [seen |-> Some(c.value), requests |-> <<req>>,
                outcome |-> TransportError]
        ELSE IF ~IsSuccess(resp.status)
          THEN [seen |-> Some(c.value), requests |-> <<req>>,
                outcome |-> IF resp.status = 404
                              THEN NotFoundError("Service order", so_id)
                              ELSE ApiError(resp)]
        ELSE [seen |-> Some(c.value), requests |-> <<req>>,
              outcome |-> ServiceOrder(resp.json[1])]

\* get_asset repeating the GET once after a transport failure.
get_asset_retrying(asset_id, resp) ==
    LET c == get_client
        req == Request("GET", "/api/v1/assets/{asset_id}", Some(asset_id),
                       None, None)
    IN  IF c.tag = "raise"
          THEN [seen |-> None, requests |-> <<>>, outcome |-> c]
        ELSE IF resp.kind = "transport"
          THEN [seen |-> Some(c.value), requests |-> <<req, req>>,
                outcome |-> TransportError]
        ELSE IF ~IsSuccess(resp.status)
          THEN [seen |-> Some(c.value), requests |-> <<req>>,
                outcome |-> IF resp.status = 404
                              THEN NotFoundError("Asset", asset_id)
                              ELSE ApiError(resp)]
        ELSE [seen |-> Some(c.value), requests |-> <<req>>,
              outcome |-> Asset(resp.json[1])]

get_asset(asset_id, resp) ==
    LET c == get_client
        req == Request("GET", "/api/v1/assets/{asset_id}", Some(asset_id),
                       None, None)
    IN  IF c.tag = "raise"
          THEN [seen |-> None, requests |-> <<>>, outcome |-> c]
        ELSE IF resp.kind = "transport"
          THEN [seen |-> Some(c.value), requests |-> <<req>>,
                outcome |-> TransportError]
        ELSE IF ~IsSuccess(resp.status)
          THEN [seen |-> Some(c.value), requests |-> <<req>>,
                outcome |-> IF resp.status = 404
                              THEN NotFoundError("Asset", asset_id)
                              ELSE ApiError(resp)]
        ELSE [seen |-> Some(c.value), requests |-> <<req>>,
              outcome |-> Asset(resp.json[1])]

list_service_order_documents(so_id, resp) ==
    LET c == get_client
        req == Request("GET", "/api/v1/service-orders/{so_id}/documents",
                       Some(so_id), None, None)
        docs == IF Get(resp.json[1], "documents") = None THEN <<>>
                ELSE resp.json[1].documents
    IN  IF c.tag = "raise"
          THEN [seen |-> None, requests |-> <<>>, outcome |-> c]
        ELSE IF resp.kind = "transport"
          THEN [seen |-> Some(c.value), requests |-> <<req>>,
                outcome |-> TransportError]
        ELSE IF ~IsSuccess(resp.status)
          THEN [seen |-> Some(c.value), requests |-> <<req>>,
                outcome |-> IF resp.status = 404
                              THEN NotFoundError("Service order", so_id)
                              ELSE ApiError(resp)]
        ELSE [seen |-> Some(c.value), requests |-> <<req>>,
              outcome |-> IF DocumentsValid(docs)
                            THEN Return(Documents(docs))
                            ELSE SchemaError("Document")]

OrderResponses(id) ==
    {TransportFailure} \cup FailResponses
      \cup {OkResponse(OrderPayloads(id)[i]) : i \in 1..Len(OrderPayloads(id))}

AssetResponses(id) ==
    {TransportFailure} \cup FailResponses
      \cup {OkResponse(AssetPayloads(id)[i]) : i \in 1..Len(AssetPayloads(id))}

DocumentResponses ==
    {TransportFailure} \cup FailResponses
      \cup {OkResponse([documents |-> DocumentLists[i]]) : i \in 1..Len(DocumentLists)}
      \cup {OkResponse([count |-> 0])}

GetServiceOrder ==
    /\ CanInvoke
    /\ \E so_id \in Ids : \E resp \in UpstreamAnswers(OrderResponses(so_id), client # None) :
         LET r == get_service_order(so_id, resp)
         IN  Finish(Invocation("get_service_order", "tool",
                               [so_id |-> so_id], r, resp))

GetAsset ==
    /\ CanInvoke
    /\ \E asset_id \in Ids : \E resp \in UpstreamAnswers(AssetResponses(asset_id), client # None) :
         LET r == get_asset(asset_id, resp)
         IN  Finish(Invocation("get_asset", "tool",
                               [asset_id |-> asset_id], r, resp))

ListServiceOrderDocuments ==
    /\ CanInvoke
    /\ \E so_id \in Ids, resp \in UpstreamAnswers(DocumentResponses, client # None) :
         LET r == list_service_order_documents(so_id, resp)
         IN  Finish(Invocation("list_service_order_documents", "tool",
                               [so_id |-> so_id], r, resp))

(* ------------------------------ search tools --------------------------- *)

Limits == {-1, 0, 1, 100, 101}

Cursors == {None, Some(""), Some("abc")}

StatusFilters == {None, Some("Open")}

CompanyFilters == {None, Some(42)}

\* The limit constraint without its upper bound.
LimitOk_noUpper(limit) == limit >= 1

\* limit: int = Field(25, ..., ge=1, le=100): the constraint the tool
\* interface validates before the function body runs.
LimitOk(limit) == limit >= 1 /\ limit <= 100

ArgumentError(field) == Raise("ValidationError", field, None, None, None)

\* The decoded JSON body of a search response; each key may be absent.
SearchData(items, next_cursor, total_count) ==
    [items |-> items, next_cursor |-> next_cursor,
     total_count |-> total_count]

\* (next_cursor, total_count) pairs an upstream page can carry.
PageMeta ==
    {<<None, None>>, <<Some(""), Some(3)>>, <<Some("abc"), Some(3)>>,
     <<Some("abc"), None>>}

OrderLists ==
    << <<>>,
       << OrderPayloads(7)[1], OrderPayloads(8)[2] >>,
       << OrderPayloads(7)[2], OrderPayloads(8)[3] >> >>

\* The assets the upstream holds, in upstream order.
AssetCatalogue ==
    << [id |-> 1, name |-> <<"G", "a">>],
       [id |-> 2, name |-> <<"P">>, manufacturer |-> "ACME"],
       [id |-> 3, name |-> <<"S">>, serial_number |-> <<"g", "A", "1">>] >>

\* The order-preserving selections of at most n catalogue entries from
\* position i on.
RECURSIVE Selections(_, _)
Selections(i, n) ==
    IF i > Len(AssetCatalogue) \/ n = 0 THEN {<<>>}
    ELSE Selections(i + 1, n)
           \cup {<<AssetCatalogue[i]>> \o t : t \in Selections(i + 1, n - 1)}

AssetLists == Selections(1, MaxItems)

Queries == {<<"g", "a">>, <<"z">>}

OrderSearchResponses ==
    {TransportFailure} \cup FailResponses
      \cup {OkResponse(SearchData(Some(OrderLists[i]), m[1], m[2])) :
              i \in 1..Len(OrderLists), m \in PageMeta}
      \cup {OkResponse(SearchData(None, None, None))}

AssetSearchResponses ==
    {TransportFailure} \cup FailResponses
      \cup {OkResponse(SearchData(Some(l), m[1], m[2])) :
              l \in AssetLists, m \in PageMeta}
      \cup {OkResponse(SearchData(None, None, None))}

\* params of search_service_orders: a key is set only for a truthy argument.
OrderSearchParams(status, client_company_id, limit, cursor) ==
    [limit |-> Some(limit),
     status |-> IF TruthyStr(status) THEN status ELSE None,
     client_company_id |-> IF TruthyInt(client_company_id)
                             THEN client_company_id ELSE None,
     cursor |-> IF TruthyStr(cursor) THEN cursor ELSE None,
     q |-> None]

\* params of search_assets with the cursor left out.
AssetSearchParams_noCursor(query, client_company_id, limit, cursor) ==
    [limit |-> Some(limit),
     status |-> None,
     client_company_id |-> IF TruthyInt(client_company_id)
                             THEN client_company_id ELSE None,
     cursor |-> None,
     q |-> Some(query)]

\* params of search_assets.
AssetSearchParams(query, client_company_id, limit, cursor) ==
    [limit |-> Some(limit),
     status |-> None,
     client_company_id |-> IF TruthyInt(client_company_id)
                             THEN client_company_id ELSE None,
     cursor |-> IF TruthyStr(cursor) THEN cursor ELSE None,
     q |-> Some(query)]

\* data.get("items", [])
ItemsOf(data) == IF data.items = None THEN <<>> ELSE data.items[1]

search_service_orders(status, client_company_id, limit, cursor, resp) ==
    LET c == get_client
        req == Request("GET", "/api/v1/service-orders", None,
                       Some(OrderSearchParams(status, client_company_id,
                                              limit, cursor)), None)
        data == resp.json[1]
    IN  IF ~LimitOk(limit)
          THEN [seen |-> None, requests |-> <<>>,
                outcome |-> ArgumentError("limit")]
        ELSE IF c.tag = "raise"
          THEN [seen |-> None, requests |-> <<>>, outcome |-> c]
        ELSE IF resp.kind = "transport"
          THEN [seen |-> Some(c.value), requests |-> <<req>>,
                outcome |-> TransportError]
        ELSE IF ~IsSuccess(resp.status)
          THEN [seen |-> Some(c.value), requests |-> <<req>>,
                outcome |-> ApiError(resp)]
        ELSE [seen |-> Some(c.value), requests |-> <<req>>,
              outcome |->
                IF ServiceOrdersValid(ItemsOf(data))
                  THEN Return(PaginatedResponse(
                                ServiceOrders(ItemsOf(data)),
                                data.next_cursor, data.total_count))
                  ELSE SchemaError("ServiceOrder")]

search_assets(query, client_company_id, limit, cursor, resp) ==
    LET c == get_client
        req == Request("GET", "/api/v1/assets/search", None,
                       Some(AssetSearchParams(query, client_company_id,
                                              limit, cursor)), None)
        data == resp.json[1]
    IN  IF ~LimitOk(limit)
          THEN [seen |-> None, requests |-> <<>>,
                outcome |-> ArgumentError("limit")]
        ELSE IF c.tag = "raise"
          THEN [seen |-> None, requests |-> <<>>, outcome |-> c]
        ELSE IF resp.kind = "transport"
          THEN [seen |-> Some(c.value), requests |-> <<req>>,
                outcome |-> TransportError]
        ELSE IF ~IsSuccess(resp.status)
          THEN [seen |-> Some(c.value), requests |-> <<req>>,
                outcome |-> ApiError(resp)]
        ELSE [seen |-> Some(c.value), requests |-> <<req>>,
              outcome |->
                IF AssetsValid(ItemsOf(data))
                  THEN Return(PaginatedResponse(
                                Assets(ItemsOf(data)),
                                data.next_cursor, data.total_count))
                  ELSE SchemaError("Asset")]

SearchServiceOrders ==
    /\ CanInvoke
    /\ \E status \in StatusFilters, company \in CompanyFilters,
          limit \in Limits, cursor \in Cursors :
       \E resp \in UpstreamAnswers(OrderSearchResponses,
                                    client # None /\ LimitOk(limit)) :
         LET r == search_service_orders(status, company, limit, cursor, resp)
         IN  Finish(Invocation("search_service_orders", "tool",
                        [status |-> status, client_company_id |-> company,
                         limit |-> limit, cursor |-> cursor], r, resp))

SearchAssets ==
    /\ CanInvoke
    /\ \E query \in Queries, company \in CompanyFilters,
          limit \in Limits, cursor \in Cursors :
       \E resp \in UpstreamAnswers(AssetSearchResponses,
                                    client # None /\ LimitOk(limit)) :
         LET r == search_assets(query, company, limit, cursor, resp)
         IN  Finish(Invocation("search_assets", "tool",
                        [query |-> query, client_company_id |-> company,
                         limit |-> limit, cursor |-> cursor], r, resp))

(* -------------------------------- upload ------------------------------- *)

\* Characters of a content string: "A" stands for the 64 alphabet
\* characters, "=" is the pad, "!" stands for every other ASCII character.
IsAlphabet(ch) == ch = "A"

IsPad(ch) == ch = "="

\* binascii.a2b_base64 in its default, non-strict mode, as base64.b64decode
\* calls it: characters outside the alphabet are skipped, a pad after at
\* least two characters of a quad ends the input once the quad is full,
\* and only an unfinished quad at the end of the input is an error.
\* quad is the position in the current quad, pads the pads seen in it,
\* n the number of bytes produced.
RECURSIVE a2b_base64(_, _, _, _, _)
a2b_base64(s, i, quad, pads, n) ==
    IF i > Len(s)
      THEN IF quad # 0 THEN [ok |-> FALSE, n |-> n] ELSE [ok |-> TRUE, n |-> n]
    ELSE IF IsPad(s[i])
      THEN IF quad >= 2 /\ quad + pads + 1 >= 4
             THEN [ok |-> TRUE, n |-> n]
             ELSE a2b_base64(s, i + 1, quad,
                             IF quad >= 2 THEN pads + 1 ELSE pads, n)
    ELSE IF ~IsAlphabet(s[i])
      THEN a2b_base64(s, i + 1, quad, pads, n)
    ELSE a2b_base64(s, i + 1, (quad + 1) % 4, 0,
                    IF quad = 0 THEN n ELSE n + 1)

\* base64.b64decode(content_base64)
b64decode(s) == a2b_base64(s, 1, 0, 0, 0)

Contents ==
    { <<>>,
      <<"A", "A", "A", "A">>,
      <<"A", "A", "A", "=">>,
      <<"A", "A", "=", "=">>,
      <<"A">>,
      <<"A", "A">>,
      <<"A", "A", "A">>,
      <<"A", "A", "=">>,
      <<"A", "=", "=", "=">>,
      <<"A", "A", "=", "A">>,
      <<"!", "!", "!", "!">>,
      <<"=">>,
      <<"A", "A", "A", "A", "!">>,
      <<"A", "!", "A", "=", "=">>,
      <<"A", "A", "A", "A", "=">>,
      <<"A", "A", "=", "=", "A", "A">> }

Filenames == {"cert.pdf"}

UploadResponses ==
    {TransportFailure} \cup FailResponses
      \cup {OkResponse([id |-> 55]), OkResponse([status |-> "stored"])}

\* The upload validating the encoding before it obtains the client.
upload_validating_first(so_id, filename, content_base64, resp) ==
    LET c == get_client
        content_bytes == b64decode(content_base64)
        payload == [filename |-> filename, content |-> content_base64]
        req == Request("POST", "/api/v1/service-orders/{so_id}/documents",
                       Some(so_id), None, Some(payload))
    IN  IF ~content_bytes.ok
          THEN [seen |-> None, requests |-> <<>>,
                outcome |-> Return(UploadResult(FALSE, None,
                    [text |-> "Invalid base64 encoding: {e}"]))]
        ELSE IF c.tag = "raise"
          THEN [seen |-> None, requests |-> <<>>, outcome |-> c]
        ELSE IF resp.kind = "transport"
          THEN [seen |-> Some(c.value), requests |-> <<req>>,
                outcome |-> TransportError]
        ELSE IF ~IsSuccess(resp.status)
          THEN [seen |-> Some(c.value), requests |-> <<req>>,
                outcome |-> Return(UploadResult(FALSE, None,
                    [text |-> "Upload failed: {status_code} - {text}",
                     status |-> resp.status, body |-> resp.text]))]
        ELSE [seen |-> Some(c.value), requests |-> <<req>>,
              outcome |-> Return(UploadResult(TRUE, Get(resp.json[1], "id"),
                    [text |-> "Uploaded {filename} ({n} bytes)",
                     filename |-> filename, n |-> content_bytes.n]))]

upload_document_to_service_order(so_id, filename, content_base64, resp) ==
    LET c == get_client
        content_bytes == b64decode(content_base64)
        payload == [filename |-> filename, content |-> content_base64]
        req == Request("POST", "/api/v1/service-orders/{so_id}/documents",
                       Some(so_id), None, Some(payload))
    IN  IF c.tag = "raise"
          THEN [seen |-> None, requests |-> <<>>, outcome |-> c]
        ELSE IF ~content_bytes.ok
          THEN [seen |-> Some(c.value), requests |-> <<>>,
                outcome |-> Return(UploadResult(FALSE, None,
                    [text |-> "Invalid base64 encoding: {e}"]))]
        ELSE IF resp.kind = "transport"
          THEN [seen |-> Some(c.value), requests |-> <<req>>,
                outcome |-> TransportError]
        ELSE IF ~IsSuccess(resp.status)
          THEN [seen |-> Some(c.value), requests |-> <<req>>,
                outcome |-> Return(UploadResult(FALSE, None,
                    [text |-> "Upload failed: {status_code} - {text}",
                     status |-> resp.status, body |-> resp.text]))]
        ELSE [seen |-> Some(c.value), requests |-> <<req>>,
              outcome |-> Return(UploadResult(TRUE, Get(resp.json[1], "id"),
                    [text |-> "Uploaded {filename} ({n} bytes)",
                     filename |-> filename, n |-> content_bytes.n]))]

UploadDocumentToServiceOrder ==
    /\ CanInvoke
    /\ \E so_id \in Ids, filename \in Filenames, content \in Contents :
       \E resp \in UpstreamAnswers(UploadResponses,
                                    client # None /\ b64decode(content).ok) :
         LET r == upload_document_to_service_order(so_id, filename, content,
                                                   resp)
         IN  Finish(Invocation("upload_document_to_service_order", "tool",
                        [so_id |-> so_id, filename |-> filename,
                         content_base64 |-> content], r, resp))

(* --------------------------- following a cursor ------------------------ *)

\* The caller asks for the next page: the same search again, with the
\* next_cursor of the page it just received as the cursor.
SearchServiceOrdersNextPage ==
    /\ CanInvoke
    /\ last.op = "search_service_orders"
    /\ last.outcome.tag = "return"
    /\ last.outcome.value.next_cursor # None
    /\ \E resp \in OrderSearchResponses :
         LET a == [last.args EXCEPT
                     !.cursor = last.outcome.value.next_cursor]
             r == search_service_orders(a.status, a.client_company_id,
                                        a.limit, a.cursor, resp)
         IN  Finish([Invocation("search_service_orders", "tool", a, r, resp)
                       EXCEPT !.fedBack = TRUE])

SearchAssetsNextPage ==
    /\ CanInvoke
    /\ last.op = "search_assets"
    /\ last.outcome.tag = "return"
    /\ last.outcome.value.next_cursor # None
    /\ \E resp \in AssetSearchResponses :
         LET a == [last.args EXCEPT
                     !.cursor = last.outcome.value.next_cursor]
             r == search_assets(a.query, a.client_company_id, a.limit,
                                a.cursor, resp)
         IN  Finish([Invocation("search_assets", "tool", a, r, resp)
                       EXCEPT !.fedBack = TRUE])

\* model_dump_json(indent=2): the serialised record (kept as the record).
model_dump_json(rec) == [json |-> rec]

\* service_order_resource: so = await get_service_order(so_id), then dump.
ServiceOrderResource ==
    /\ CanInvoke
    /\ \E so_id \in Ids : \E resp \in UpstreamAnswers(OrderResponses(so_id), client # None) :
         LET r == get_service_order(so_id, resp)
         IN  Finish(Invocation("get_service_order", "resource", [so_id |-> so_id],
                       [r EXCEPT !.outcome =
                           IF @.tag = "raise" THEN @
                           ELSE Return(model_dump_json(@.value))],
                       resp))

\* asset_resource: asset = await get_asset(asset_id), then dump.
AssetResource ==
    /\ CanInvoke
    /\ \E asset_id \in Ids : \E resp \in UpstreamAnswers(AssetResponses(asset_id), client # None) :
         LET r == get_asset(asset_id, resp)
         IN  Finish(Invocation("get_asset", "resource", [asset_id |-> asset_id],
                       [r EXCEPT !.outcome =
                           IF @.tag = "raise" THEN @
                           ELSE Return(model_dump_json(@.value))],
                       resp))

Next ==
    \/ MainInit
    \/ ServerStart
    \/ ServerStop
    \/ ScriptInit
    \/ ScriptClose
    \/ GetServiceOrder
    \/ GetAsset
    \/ ListServiceOrderDocuments
    \/ ServiceOrderResource
    \/ AssetResource
    \/ SearchServiceOrders
    \/ SearchAssets
    \/ UploadDocumentToServiceOrder
    \/ SearchServiceOrdersNextPage
    \/ SearchAssetsNextPage

Spec == Init /\ [][Next]_vars

(* ------------------------------ properties ----------------------------- *)

SearchOps == {"search_service_orders", "search_assets"}

ByIdOps == {"get_service_order", "get_asset", "list_service_order_documents"}

ReadOps == SearchOps \cup ByIdOps

Invoked == last.op # "none"

\* The invocation got as far as get_client (its arguments were accepted).
ReachedGetClient == Invoked /\ last.outcome # ArgumentError("limit")

\* The upstream answered the last invocation with an HTTP response.
GotResponse == last.response # None /\ last.response[1].kind = "response"

RequestedId ==
    IF last.op = "get_asset" THEN last.args.asset_id ELSE last.args.so_id

\* C1: get_client fails with the "not initialized" RuntimeError exactly when
\* no client has been constructed; at most one client is ever constructed,
\* and every invocation that reached get_client after that saw the one
\* handle the global holds.
C1_GetClientContract ==
    /\ constructed <= 1
    /\ (get_client = NotInitializedError) <=> (constructed = 0)
    /\ get_client.tag = "return" => get_client.value = 1
    /\ ReachedGetClient =>
         IF constructed = 0
           THEN last.outcome = NotInitializedError /\ last.clientSeen = None
           ELSE /\ last.outcome # NotInitializedError
                /\ last.clientSeen = client
                /\ last.clientSeen = Some(1)

C1_Witness ==
    /\ nInv >= 2
    /\ constructed = 1
    /\ last.clientSeen = Some(1)

\* C2: with the token absent or empty, init_client raises the configuration
\* error and nothing starts: no client is constructed, the global stays
\* None, the server is never run, main serves no invocation, and no
\* outbound call is ever made.
C2_NoTokenNoStart ==
    Token = "" =>
      /\ init_client = ConfigurationError
      /\ client = None /\ constructed = 0 /\ closes = 0
      /\ ~serverRan
      /\ netCalls = 0 /\ last.requests = <<>>
      /\ entry = "main" => nInv = 0 /\ pc \in {"start", "exited"}
      /\ entry = "main" /\ pc = "exited" => exitError = Some(ConfigurationError)

C2_Witness ==
    /\ envToken = Some("")
    /\ entry = "main"
    /\ pc = "exited"
    /\ exitError = Some(ConfigurationError)

\* C3: in a run of main, the client is constructed at most once and before
\* the server serves anything; it is closed only if it was constructed, never
\* before the server run ends, and exactly once when the run has ended,
\* whether mcp.run() returned or raised.
C3_InitOnceCloseOnce ==
    entry = "main" =>
      /\ constructed <= 1
      /\ closes <= constructed
      /\ serverRan \/ nInv > 0 => constructed = 1
      /\ pc # "exited" => closes = 0
      /\ pc = "exited" => closes = constructed

C3_Witness ==
    /\ entry = "main"
    /\ pc = "exited"
    /\ exitError = Some(ServerError)
    /\ nInv > 0
    /\ closes = 1

C5_NotFoundNamesId ==
    (last.op \in ByIdOps /\ GotResponse /\ last.response[1].status = 404) =>
      /\ last.outcome.tag = "raise"
      /\ last.outcome.exc = "ValueError"
      /\ last.outcome.id = Some(RequestedId)

C5_Witness ==
    /\ last.op = "get_asset"
    /\ last.via = "resource"
    /\ GotResponse
    /\ last.response[1].status = 404
    /\ last.outcome.id = Some(8)

\* C6: when the upstream answers a read operation with a status outside 2xx
\* other than 404, the operation raises the RuntimeError carrying that status
\* code and that response's body text.
C6_UpstreamErrorVerbatim ==
    (/\ last.op \in ReadOps
     /\ GotResponse
     /\ ~(last.response[1].status \in 200..299)
     /\ last.response[1].status # 404) =>
      /\ last.outcome.tag = "raise"
      /\ last.outcome.exc = "RuntimeError"
      /\ last.outcome.status = Some(last.response[1].status)
      /\ last.outcome.text = Some(last.response[1].text)

C6_Witness ==
    /\ last.op = "search_service_orders"
    /\ GotResponse
    /\ last.response[1].status = 500
    /\ last.outcome.text = Some("quota exceeded")

\* RFC 4648 base64: whole quads of alphabet characters, the last quad
\* possibly ending in one or two pads, nothing else.
ValidBase64(s) ==
    /\ Len(s) % 4 = 0
    /\ \A i \in 1..Len(s) :
         \/ IsAlphabet(s[i])
         \/ /\ IsPad(s[i])
            /\ i > Len(s) - 2
            /\ \A j \in i..Len(s) : IsPad(s[j])

IsUpload == last.op = "upload_document_to_service_order"

\* C7: an upload (with the client initialized) whose content is not valid
\* base64 returns an UploadResult with success = false and the invalid
\* encoding message, and issues no request.
C7_InvalidBase64Rejected ==
    (IsUpload /\ last.clientSeen # None
       /\ ~ValidBase64(last.args.content_base64)) =>
      /\ last.outcome.tag = "return"
      /\ last.outcome.value.success = FALSE
      /\ last.outcome.value.message.text = "Invalid base64 encoding: {e}"
      /\ last.requests = <<>>

\* C8: with the client initialized, an upload never raises: it returns an
\* UploadResult, with success = false whenever the upstream did not answer
\* with a 2xx status, and with a document id only when success = true.
C8_UploadNeverRaises ==
    (IsUpload /\ last.clientSeen # None) =>
      /\ last.outcome.tag = "return"
      /\ (last.requests = <<>> \/ ~GotResponse
            \/ ~(last.response[1].status \in 200..299))
           => last.outcome.value.success = FALSE
      /\ last.outcome.value.document_id # None => last.outcome.value.success

\* The cursor parameter of the one request of the last invocation.
ForwardedCursor == last.requests[1].params[1].cursor

\* The next_cursor of the upstream's answer to the last invocation.
UpstreamNextCursor == last.response[1].json[1].next_cursor

\* C9 as stated: a search that calls the upstream makes one call, whose
\* cursor parameter is the cursor the caller supplied, whatever its value,
\* and a returned page carries the upstream's next_cursor.
C9_EveryCursorForwarded ==
    (last.op \in SearchOps /\ last.requests # <<>>) =>
      /\ Len(last.requests) = 1
      /\ ForwardedCursor = last.args.cursor
      /\ last.outcome.tag = "return" =>
           last.outcome.value.next_cursor = UpstreamNextCursor

\* C9 amended: the cursor parameter is the supplied cursor unless that is
\* the empty string, which is sent as no cursor at all; a returned page
\* carries the upstream's next_cursor; a non-empty next_cursor fed back to
\* the next call reaches the upstream unchanged.
C9_NonEmptyCursorForwarded ==
    (last.op \in SearchOps /\ last.requests # <<>>) =>
      /\ Len(last.requests) = 1
      /\ ForwardedCursor =
           (IF last.args.cursor = Some("") THEN None ELSE last.args.cursor)
      /\ last.outcome.tag = "return" =>
           last.outcome.value.next_cursor = UpstreamNextCursor
      /\ (last.fedBack /\ last.args.cursor # Some("")) =>
           ForwardedCursor # None /\ ForwardedCursor = last.args.cursor

C9_Witness ==
    /\ last.op = "search_assets"
    /\ last.fedBack
    /\ last.requests # <<>>
    /\ ForwardedCursor = Some("abc")
    /\ last.outcome.tag = "return"
    /\ last.outcome.value.next_cursor = Some("abc")

Lower(ch) == IF ch = "G" THEN "g" ELSE IF ch = "A" THEN "a"
             ELSE IF ch = "P" THEN "p" ELSE IF ch = "S" THEN "s" ELSE ch

LowerCase(str) == [i \in 1..Len(str) |-> Lower(str[i])]

\* needle occurs in hay as a contiguous substring.
Contains(hay, needle) ==
    \E k \in 0..(Len(hay) - Len(needle)) :
       \A i \in 1..Len(needle) : hay[k + i] = needle[i]

\* The query is a case-insensitive substring of the name, serial number or
\* model of the upstream record; an absent field never matches.
MatchesQuery(item, query) ==
    \E f \in {"name", "serial_number", "model"} :
       /\ f \in DOMAIN item
       /\ Contains(LowerCase(item[f]), LowerCase(query))

RECURSIVE MatchingIds(_, _)
MatchingIds(items, query) ==
    IF items = <<>> THEN <<>>
    ELSE (IF MatchesQuery(Head(items), query) THEN <<Head(items).id>>
          ELSE <<>>) \o MatchingIds(Tail(items), query)

Min(a, b) == IF a <= b THEN a ELSE b

\* C10: when search_assets got a collection from the upstream, it returns
\* the first min(limit, m) of the m records matching the query, in upstream
\* order, a total count of m, and no next_cursor.
C10_ClientSideFilter ==
    (/\ last.op = "search_assets"
     /\ GotResponse
     /\ last.response[1].status = 200
     /\ last.response[1].json[1].items # None) =>
      LET matching == MatchingIds(last.response[1].json[1].items[1],
                                  last.args.query)
          m == Len(matching)
          n == Min(last.args.limit, m)
      IN  /\ last.outcome.tag = "return"
          /\ Len(last.outcome.value.items) = n
          /\ \A i \in 1..n : last.outcome.value.items[i].id = matching[i]
          /\ last.outcome.value.total_count = Some(m)
          /\ last.outcome.value.next_cursor = None

\* The fields of a ServiceOrder other than the identifier and the number.
OptionalOrderFields ==
    {"status", "client_company_id", "client_company_name", "created_at",
     "updated_at"}

\* C11: a ServiceOrder payload that has the identifier and the number
\* normalizes to a record with exactly that identifier and number, in which
\* every other field missing from the payload is absent, whatever else the
\* payload lacks or adds; normalization fails, with the schema error, only
\* when the identifier or the number is missing.
C11_OrderNormalization ==
    (/\ last.op = "get_service_order"
     /\ last.via = "tool"
     /\ GotResponse
     /\ last.response[1].status = 200) =>
      LET data == last.response[1].json[1]
      IN  IF {"id", "number"} \subseteq DOMAIN data
            THEN /\ last.outcome.tag = "return"
                 /\ last.outcome.value.id = data.id
                 /\ last.outcome.value.number = data.number
                 /\ \A f \in OptionalOrderFields \ DOMAIN data :
                      last.outcome.value[f] = None
            ELSE last.outcome = SchemaError("ServiceOrder")

\* The path a by-id operation requests.
PathOf(op) ==
    IF op = "get_asset" THEN "/api/v1/assets/{asset_id}"
    ELSE IF op = "get_service_order" THEN "/api/v1/service-orders/{so_id}"
    ELSE "/api/v1/service-orders/{so_id}/documents"

\* C12: an invocation issues at most one request, and exactly one whenever
\* the upstream was asked, whatever it answered (no retry); so the requests
\* of the whole run never outnumber the invocations.  A resource read issues
\* what the fetch it delegates to issues: nothing before the client is
\* initialized, else the one GET for the requested identifier.
C12_AtMostOneCall ==
    /\ Len(last.requests) <= 1
    /\ last.response # None => Len(last.requests) = 1
    /\ netCalls <= nInv
    /\ (Invoked /\ last.via = "resource") =>
         last.requests =
           (IF last.clientSeen = None THEN <<>>
            ELSE <<Request("GET", PathOf(last.op), Some(RequestedId),
                           None, None)>>)

C12_Witness ==
    /\ last.op = "get_asset"
    /\ last.via = "resource"
    /\ last.response = Some(TransportFailure)
    /\ Len(last.requests) = 1
    /\ nInv = 2
    /\ netCalls = 2

\* The last invocation was made before any client was constructed.
InvokedBeforeInit == Invoked /\ constructed = 0

\* The last invocation is a search whose limit the tool interface rejects.
LimitOutOfRange ==
    last.op \in SearchOps /\ (last.args.limit < 1 \/ last.args.limit > 100)

InvocationKeepsClient ==
    nInv' # nInv =>
      client' = client /\ constructed' = constructed /\ closes' = closes

====
